---- MODULE Spec2Model ----
(***************************************************************************)
(* Model of src/app.py: the Streamlit shopping cart.  The session cart is  *)
(* an insertion-ordered dict  product -> {price, qty};  it is modelled as  *)
(* the sequence of its lines in insertion order.  Every button handler of  *)
(* the script is one action; the widgets above a handler decide which      *)
(* inputs the handler can receive.                                         *)
(***************************************************************************)
EXTENDS Integers, Sequences, FiniteSets, TLC

VARIABLES
    cart,       \* st.session_state.cart, lines in insertion order
    files,      \* paths of the invoice files present on disk (open(..., "w")
                \* replaces a file of the same name; its text is in written)
    op,         \* the button whose handler ran last
    msg,        \* what that handler showed with st.success / st.error
    written,    \* the invoices that handler wrote, in order
    genCalls,   \* how often that handler called generate_invoice
    addedSum    \* per product: quantities added since its line was created

vars == <<cart, files, op, msg, written, genCalls, addedSum>>

----------------------------------------------------------------------------
(* Bounds of the exploration *)

\* largest number typed into a number_input
MaxQty == 2
\* adds stop once a line would exceed this quantity
MaxCartQty == 3

----------------------------------------------------------------------------
(* Catalog: ShoppingSystem.__init__ *)

ProductKeys ==
    << "Laptop", "Headphones", "SamsungS22", "Shirt",
       "Pant", "Apple", "Banana", "Papaya" >>

products ==
    [p \in {ProductKeys[i] : i \in 1..Len(ProductKeys)} |->
        CASE p = "Laptop"     -> 50000
          [] p = "Headphones" -> 1500
          [] p = "SamsungS22" -> 60000
          [] p = "Shirt"      -> 800
          [] p = "Pant"       -> 1200
          [] p = "Apple"      -> 80
          [] p = "Banana"     -> 40
          [] p = "Papaya"     -> 60]

\* gst_rate = 0.10, as a percentage
GstRatePercent == 10

\* the products the exploration selects in the "Select Product" box
Pickable == {"Apple", "Banana", "Papaya"}

----------------------------------------------------------------------------
(* Strings are sequences of one-character strings. *)

Upper == {"A","B","C","D","E","F","G","H","I","J","K","L","M",
          "N","O","P","Q","R","S","T","U","V","W","X","Y","Z"}
Lower == {"a","b","c","d","e","f","g","h","i","j","k","l","m",
          "n","o","p","q","r","s","t","u","v","w","x","y","z"}
Digit == {"0","1","2","3","4","5","6","7","8","9"}
Space == {" ", "\t", "\n"}
NameChar == Upper \cup Lower \cup {" "}

\* re.fullmatch(r"[A-Za-z ]+", name)
validate_name(name) ==
    /\ Len(name) >= 1
    /\ \A i \in 1..Len(name) : name[i] \in NameChar

\* re.fullmatch(r"(0|91)?[0-9]{10}", phone)
validate_phone(phone) ==
    \E prefix \in {<< >>, <<"0">>, <<"9", "1">>} :
        /\ Len(phone) = Len(prefix) + 10
        /\ SubSeq(phone, 1, Len(prefix)) = prefix
        /\ \A i \in 1..Len(phone) : phone[i] \in Digit

\* str.strip()
RECURSIVE strip(_)
strip(s) ==
    IF s = << >> THEN s
    ELSE IF Head(s) \in Space THEN strip(Tail(s))
    ELSE IF s[Len(s)] \in Space THEN strip(SubSeq(s, 1, Len(s) - 1))
    ELSE s

----------------------------------------------------------------------------
(* The cart dict *)

Keys(c) == {c[i].item : i \in 1..Len(c)}

\* product in st.session_state.cart
InCart(c, p) == \E i \in 1..Len(c) : c[i].item = p

\* st.session_state.cart[p]["qty"] (0 when p has no line)
QtyOf(c, p) ==
    IF InCart(c, p)
        THEN c[CHOOSE i \in 1..Len(c) : c[i].item = p].qty
        ELSE 0

\* a slip in the accumulation: qty = quantity instead of qty += quantity
AddQty_Overwrites(c, product, quantity) ==
    [i \in 1..Len(c) |->
        IF c[i].item = product
            THEN [c[i] EXCEPT !.qty = quantity]
            ELSE c[i]]

\* st.session_state.cart[product]["qty"] += quantity
AddQty(c, product, quantity) ==
    [i \in 1..Len(c) |->
        IF c[i].item = product
            THEN [c[i] EXCEPT !.qty = c[i].qty + quantity]
            ELSE c[i]]

\* st.session_state.cart[product] = {"price": price, "qty": quantity}
NewLine(c, product, price, quantity) ==
    Append(c, [item |-> product, price |-> price, qty |-> quantity])

\* a slip in the update: the whole line is replaced and the price is lost
SetQty_ReplacesLine(c, selected_item, new_qty) ==
    [i \in 1..Len(c) |->
        IF c[i].item = selected_item
            THEN [item |-> selected_item, price |-> 0, qty |-> new_qty]
            ELSE c[i]]

\* st.session_state.cart[selected_item]["qty"] = new_qty
SetQty(c, selected_item, new_qty) ==
    [i \in 1..Len(c) |->
        IF c[i].item = selected_item
            THEN [c[i] EXCEPT !.qty = new_qty]
            ELSE c[i]]

\* a slip in the removal: the most recent line goes (popitem), not the chosen
DelKey_PopsLast(c, selected_item) ==
    SubSeq(c, 1, Len(c) - 1)

\* del st.session_state.cart[selected_item]
DelKey(c, selected_item) ==
    SelectSeq(c, LAMBDA l : l.item # selected_item)

----------------------------------------------------------------------------
(* The button handlers, as functions of the cart and the widget values.    *)
(* try/except Exception: st.error(e) turns every exception into a message. *)

\* st.success(text)
st_success(text) == [level |-> "success", exc |-> "", text |-> text]

\* st.error(text), and st.error(e) for a caught exception of class exc
st_error(exc, text) == [level |-> "error", exc |-> exc, text |-> text]

\* a slip in the handler: no look-up of an existing line, always a new one
AddToCart_AlwaysAppends(c, product, quantity) ==
    IF product \notin DOMAIN products
        THEN [cart |-> c,
              msg |-> [level |-> "error", exc |-> "ProductNotFoundError",
                       text |-> "Product not available!"]]
        ELSE [cart |-> Append(c, [item |-> product, price |-> products[product],
                                  qty |-> quantity]),
              msg  |-> [level |-> "success", exc |-> "", text |-> "Added"]]

\* if st.button("Add to Cart")
AddToCart(c, product, quantity) ==
    IF product \notin DOMAIN products
        THEN [cart |-> c, msg |-> st_error("ProductNotFoundError", "Product not available!")]
    ELSE IF InCart(c, product)
        THEN [cart |-> AddQty(c, product, quantity), msg |-> st_success("Added")]
    ELSE [cart |-> NewLine(c, product, products[product], quantity),
          msg  |-> st_success("Added")]

\* if st.button("Update Quantity")
UpdateQuantity(c, selected_item, new_qty) ==
    IF InCart(c, selected_item)
        THEN [cart |-> SetQty(c, selected_item, new_qty),
              msg  |-> st_success("Updated")]
        ELSE [cart |-> c, msg |-> st_error("KeyError", selected_item)]

\* if st.button("Remove Item")
RemoveItem(c, selected_item) ==
    IF InCart(c, selected_item)
        THEN [cart |-> DelKey(c, selected_item), msg |-> st_success("Removed")]
        ELSE [cart |-> c, msg |-> st_error("KeyError", selected_item)]

\* if st.button("Clear Cart")
ClearCart(c) == [cart |-> << >>, msg |-> st_success("Cart cleared successfully!")]

\* the loop of generate_invoice: the lines of the invoice and their sum
RECURSIVE InvoiceLines(_)
InvoiceLines(c) ==
    IF c = << >> THEN << >>
    ELSE << [item |-> Head(c).item, qty |-> Head(c).qty,
             cost |-> Head(c).price * Head(c).qty] >> \o InvoiceLines(Tail(c))

\* a slip in the loop: total += d['price'], the quantity forgotten
RECURSIVE Total_IgnoresQty(_)
Total_IgnoresQty(c) ==
    IF c = << >> THEN 0
    ELSE Head(c).price + Total_IgnoresQty(Tail(c))

RECURSIVE Total(_)
Total(c) ==
    IF c = << >> THEN 0
    ELSE Head(c).price * Head(c).qty + Total(Tail(c))

\* total * gst_rate in binary floating point.  fl(0.10) = 0.1 * (1 + 2^-54),
\* so for a total that is a multiple of 10 the product rounds to total / 10
\* exactly; every catalog price is a multiple of 10.
GstAmount(total) == (total * GstRatePercent) \div 100

\* ShoppingSystem.generate_invoice: the file it writes and the cart it leaves
\* (the Date line, datetime.now(), is left out: no handler reads it back)
generate_invoice(filename, customer_name, phone, c) ==
    LET total       == Total(c)
        gst_amount  == GstAmount(total)
        grand_total == total + gst_amount
    IN  [path    |-> filename \o <<".txt">>,
         invoice |-> [customer_name |-> customer_name,
                      phone         |-> phone,
                      lines         |-> InvoiceLines(c),
                      total         |-> total,
                      gst_amount    |-> gst_amount,
                      grand_total   |-> grand_total],
         cart    |-> c]

\* a slip in the handler: the empty-cart test is missing
PlaceOrder_NoEmptyTest(c, customer_name, phone, filename, ioOk) ==
    LET g == [path |-> filename \o <<".txt">>,
              invoice |-> [customer_name |-> customer_name, phone |-> phone,
                           lines |-> << >>, total |-> 0, gst_amount |-> 0,
                           grand_total |-> 0]]
    IN  IF validate_name(customer_name) /\ validate_phone(phone)
           /\ strip(filename) # << >> /\ ioOk /\ c = << >>
            THEN [cart |-> << >>,
                  msg |-> [level |-> "success", exc |-> "",
                           text |-> "Order placed!"],
                  written |-> << g >>, genCalls |-> 1]
            ELSE [cart |-> c,
                  msg |-> [level |-> "error", exc |-> "", text |-> "rejected"],
                  written |-> << >>, genCalls |-> 0]

\* a slip in the handler: the cart is cleared in a finally clause, so also
\* when validation or the file-name test rejects the order
PlaceOrder_ClearsAlways(c, customer_name, phone, filename, ioOk) ==
    IF c # << >> /\ validate_name(customer_name) /\ validate_phone(phone)
       /\ strip(filename) # << >> /\ ioOk
        THEN [cart |-> << >>,
              msg |-> [level |-> "success", exc |-> "", text |-> "Order placed!"],
              written |-> << [path |-> filename \o <<".txt">>,
                              invoice |-> generate_invoice(filename,
                                  customer_name, phone, c).invoice] >>,
              genCalls |-> 1]
        ELSE [cart |-> << >>,
              msg |-> [level |-> "error", exc |-> "", text |-> "rejected"],
              written |-> << >>, genCalls |-> 0]

\* a slip in the handler: the cart is cleared before the invoice is generated
PlaceOrder_ClearsFirst(c, customer_name, phone, filename, ioOk) ==
    IF c # << >> /\ validate_name(customer_name) /\ validate_phone(phone)
       /\ strip(filename) # << >> /\ ioOk
        THEN [cart |-> << >>,
              msg |-> [level |-> "success", exc |-> "", text |-> "Order placed!"],
              written |-> << [path |-> filename \o <<".txt">>,
                              invoice |-> generate_invoice(filename,
                                  customer_name, phone, << >>).invoice] >>,
              genCalls |-> 1]
        ELSE [cart |-> c,
              msg |-> [level |-> "error", exc |-> "", text |-> "rejected"],
              written |-> << >>, genCalls |-> 0]

\* if st.button("Place Order"); ioOk: open(filename + ".txt", "w") succeeds
PlaceOrder(c, customer_name, phone, filename, ioOk) ==
    LET keep(m, calls) ==
            [cart |-> c, msg |-> m, written |-> << >>,
             genCalls |-> calls]
        g == generate_invoice(filename, customer_name, phone, c)
    IN  IF c = << >>
            THEN keep(st_error("", "Cart is empty! Add items before placing order."), 0)
        ELSE IF ~validate_name(customer_name)
            THEN keep(st_error("ValidationError",
                     "Customer name must contain only alphabets and spaces."), 0)
        ELSE IF ~validate_phone(phone)
            THEN keep(st_error("ValidationError",
                     "Phone number must be 10 digits (0 or 91 optional)."), 0)
        ELSE IF strip(filename) = << >>
            THEN keep(st_error("", "File name cannot be empty!"), 0)
        ELSE IF ~ioOk
            THEN keep(st_error("OSError", "open"), 1)
        ELSE [cart     |-> << >>,
              msg      |-> st_success("Order placed!"),
              written  |-> << [path |-> g.path, invoice |-> g.invoice] >>,
              genCalls |-> 1]

----------------------------------------------------------------------------
(* What the user can type into the text inputs *)

JohnSmith  == <<"J","o","h","n"," ","S","m","i","t","h">>
John3      == <<"J","o","h","n","3">>
Phone10    == <<"9","8","7","6","5","4","3","2","1","0">>
Phone0     == <<"0","9","8","7","6","5","4","3","2","1","0">>
Phone91    == <<"9","1","9","8","7","6","5","4","3","2","1","0">>
Phone5     == <<"1","2","3","4","5">>
Phone11    == <<"9","8","7","6","5","4","3","2","1","0","0">>
Inv        == <<"i","n","v">>
Blank      == <<" ", "\t">>

OrderInput(n, ph, f, io) ==
    [customer_name |-> n, phone |-> ph, filename |-> f, ioOk |-> io]

\* the forms the exploration submits: a good one, every single deviation
\* from it, and forms with several fields wrong at once
OrderInputs ==
    { OrderInput(JohnSmith, Phone10, Inv, TRUE),
      OrderInput(JohnSmith, Phone0, Inv, TRUE),
      OrderInput(JohnSmith, Phone91, Inv, TRUE),
      OrderInput(JohnSmith, Phone10, Inv, FALSE),
      OrderInput(<< >>, Phone10, Inv, TRUE),
      OrderInput(John3, Phone10, Inv, TRUE),
      OrderInput(JohnSmith, Phone5, Inv, TRUE),
      OrderInput(JohnSmith, Phone11, Inv, TRUE),
      OrderInput(JohnSmith, Phone10, << >>, TRUE),
      OrderInput(JohnSmith, Phone10, Blank, TRUE),
      OrderInput(John3, Phone5, Blank, TRUE),
      OrderInput(JohnSmith, Phone5, << >>, FALSE),
      OrderInput(<< >>, << >>, << >>, TRUE) }

----------------------------------------------------------------------------
(* The session *)

\* if "cart" not in st.session_state: st.session_state.cart = {}
Init ==
    /\ cart = << >>
    /\ files = {}
    /\ op = "start"
    /\ msg = [level |-> "none", exc |-> "", text |-> ""]
    /\ written = << >>
    /\ genCalls = 0
    /\ addedSum = [p \in DOMAIN products |-> 0]

\* quantities added to p's line since it was created; -1 once the line has
\* been changed by something else than an add
Tracked(c, p, was, quantity) ==
    IF InCart(c, p) THEN (IF was < 0 THEN was ELSE was + quantity)
    ELSE quantity

AddToCartWith(product, quantity) ==
    /\ QtyOf(cart, product) + quantity <= MaxCartQty
    /\ LET r == AddToCart(cart, product, quantity) IN
        /\ cart' = r.cart
        /\ msg' = r.msg
    /\ addedSum' = [addedSum EXCEPT
           ![product] = Tracked(cart, product, @, quantity)]
    /\ op' = "add"
    /\ written' = << >> /\ genCalls' = 0
    /\ UNCHANGED files

\* product = st.selectbox(..., list(system.products.keys()))
\* quantity = st.number_input(..., min_value=1, value=1, step=1)
AddToCartClicked ==
    \E product \in Pickable, quantity \in 1..MaxQty :
        AddToCartWith(product, quantity)

UpdateQuantityWith(selected_item, new_qty) ==
    /\ LET r == UpdateQuantity(cart, selected_item, new_qty) IN
        /\ cart' = r.cart
        /\ msg' = r.msg
    /\ addedSum' = [addedSum EXCEPT ![selected_item] = -1]
    /\ op' = "update"
    /\ written' = << >> /\ genCalls' = 0
    /\ UNCHANGED files

\* if st.session_state.cart: selected_item = st.selectbox(..., item_list)
\* new_qty = st.number_input(..., min_value=1, value=1, step=1)
UpdateQuantityClicked ==
    /\ cart # << >>
    /\ \E selected_item \in Keys(cart), new_qty \in 1..MaxQty :
        UpdateQuantityWith(selected_item, new_qty)

RemoveItemWith(selected_item) ==
    /\ LET r == RemoveItem(cart, selected_item) IN
        /\ cart' = r.cart
        /\ msg' = r.msg
    /\ addedSum' = [addedSum EXCEPT ![selected_item] = 0]
    /\ op' = "remove"
    /\ written' = << >> /\ genCalls' = 0
    /\ UNCHANGED files

RemoveItemClicked ==
    /\ cart # << >>
    /\ \E selected_item \in Keys(cart) : RemoveItemWith(selected_item)

ClearCartClicked ==
    /\ LET r == ClearCart(cart) IN
        /\ cart' = r.cart
        /\ msg' = r.msg
    /\ addedSum' = [p \in DOMAIN products |-> 0]
    /\ op' = "clear"
    /\ written' = << >> /\ genCalls' = 0
    /\ UNCHANGED files

PlaceOrderWith(customer_name, phone, filename, ioOk) ==
    /\ LET r == PlaceOrder(cart, customer_name, phone, filename, ioOk) IN
        /\ cart' = r.cart
        /\ msg' = r.msg
        /\ written' = r.written
        /\ genCalls' = r.genCalls
        /\ files' = files \cup {r.written[i].path : i \in 1..Len(r.written)}
        /\ addedSum' = IF r.cart = << >>
                          THEN [p \in DOMAIN products |-> 0]
                          ELSE addedSum
    /\ op' = "order"

\* customer_name, phone, filename = st.text_input(...)
PlaceOrderClicked ==
    \E in \in OrderInputs :
        PlaceOrderWith(in.customer_name, in.phone, in.filename, in.ioOk)

Next ==
    \/ AddToCartClicked
    \/ UpdateQuantityClicked
    \/ RemoveItemClicked
    \/ ClearCartClicked
    \/ PlaceOrderClicked

Spec == Init /\ [][Next]_vars

----------------------------------------------------------------------------
(* Properties *)

\* the lines of cart c that are keyed by p
LinesFor(c, p) == {i \in 1..Len(c) : c[i].item = p}

\* the line of p in c, as the pair <<price, qty>>; <<>> when p has no line
LineOf(c, p) ==
    IF LinesFor(c, p) = {} THEN << >>
    ELSE LET i == CHOOSE j \in LinesFor(c, p) : TRUE
         IN  <<c[i].price, c[i].qty>>

\* sum of price * qty over the first n lines of c
RECURSIVE CostUpTo(_, _)
CostUpTo(c, n) ==
    IF n = 0 THEN 0 ELSE CostUpTo(c, n - 1) + c[n].price * c[n].qty

\* the spec's examples of inputs that must be rejected
BadNames == { << >>, <<"J","o","h","n","3">> }
BadPhones == { << >>, <<"1","2","3","4","5">>,
               <<"9","8","7","6","5","4","3","2","1","0","0">> }
BlankFilenames == { << >>, <<" ", "\t">> }

\* C1: while a product's line has only been added to since it was created,
\* the cart holds exactly one line for the product and its quantity is the
\* sum of the quantities added.
C1_AddsAccumulate ==
    \A p \in DOMAIN products :
        addedSum[p] > 0 =>
            /\ Cardinality(LinesFor(cart, p)) = 1
            /\ QtyOf(cart, p) = addedSum[p]

C1_Witness ==
    /\ op = "add" /\ msg.level = "success"
    /\ \E p \in Pickable : addedSum[p] = MaxCartQty /\ QtyOf(cart, p) = MaxCartQty
    /\ Len(cart) >= 2

C3_EmptyCartOrderFails ==
    [][op' = "order" => \A in \in OrderInputs :
            (cart = << >> /\ PlaceOrderWith(in.customer_name, in.phone,
                                            in.filename, in.ioOk))
            => /\ msg'.level = "error"
               /\ written' = << >>
               /\ files' = files
               /\ genCalls' = 0
               /\ cart' = << >>]_vars

C3_Witness ==
    /\ op = "order" /\ cart = << >> /\ written = << >>
    /\ msg = st_error("", "Cart is empty! Add items before placing order.")

\* C4: Place Order on a non-empty cart with an invalid name, an invalid phone
\* number or a blank file name writes nothing and leaves the cart as it was;
\* an invoice is written only when all three inputs pass.
C4_RejectedOrderKeepsCart ==
    [][op' = "order" => \A in \in OrderInputs :
            (cart # << >> /\ PlaceOrderWith(in.customer_name, in.phone,
                                            in.filename, in.ioOk))
            => LET bad == \/ in.customer_name \in BadNames
                          \/ in.phone \in BadPhones
                          \/ in.filename \in BlankFilenames
               IN  /\ bad => /\ msg'.level = "error"
                             /\ written' = << >>
                             /\ files' = files
                             /\ cart' = cart
                   /\ written' # << >> => ~bad]_vars

C4_Witness ==
    /\ op = "order" /\ cart # << >> /\ written = << >>
    /\ msg = st_error("", "File name cannot be empty!")

\* C5: a successful Place Order writes exactly one invoice, whose lines are
\* the cart as it was before the action, and ends with the cart empty; a
\* Place Order that writes no invoice does not clear the cart.
C5_OrderWritesThenClears ==
    [][op' = "order" => \A in \in OrderInputs :
            PlaceOrderWith(in.customer_name, in.phone, in.filename, in.ioOk)
            => /\ msg'.level = "success" =>
                    /\ Len(written') = 1
                    /\ written'[1].path = in.filename \o <<".txt">>
                    /\ written'[1].path \in files'
                    /\ written'[1].invoice.customer_name = in.customer_name
                    /\ written'[1].invoice.phone = in.phone
                    /\ written'[1].invoice.lines =
                           [i \in 1..Len(cart) |->
                               [item |-> cart[i].item, qty |-> cart[i].qty,
                                cost |-> cart[i].price * cart[i].qty]]
                    /\ cart # << >>
                    /\ cart' = << >>
               /\ written' = << >> => cart' = cart /\ msg'.level = "error"]_vars

C5_Witness ==
    /\ op = "order" /\ msg.level = "success" /\ cart = << >>
    /\ Len(written) = 1 /\ Len(written[1].invoice.lines) = 3

\* C6: generate_invoice computes subtotal = sum of price * qty over the
\* lines, GST = 10% of the subtotal, grand total = subtotal + GST (320, 32
\* and 352 for Apple x 3 at 80 with Banana x 2 at 40) and leaves the cart it
\* is given as it was.
C6_InvoiceTotals ==
    [][op' = "order" => \A in \in OrderInputs :
            (PlaceOrderWith(in.customer_name, in.phone, in.filename, in.ioOk)
                /\ written' # << >>)
            => LET inv == written'[1].invoice
                   gen == generate_invoice(in.filename, in.customer_name,
                                           in.phone, cart)
               IN  /\ inv.total = CostUpTo(cart, Len(cart))
                   /\ inv.gst_amount * 10 = inv.total
                   /\ inv.grand_total = inv.total + inv.gst_amount
                   /\ (/\ Len(cart) = 2
                       /\ LineOf(cart, "Apple") = <<80, 3>>
                       /\ LineOf(cart, "Banana") = <<40, 2>>)
                      => /\ inv.total = 320
                         /\ inv.gst_amount = 32
                         /\ inv.grand_total = 352
                   /\ gen.cart = cart
                   /\ gen.invoice = inv]_vars

C6_Witness ==
    /\ op = "order" /\ Len(written) = 1
    /\ written[1].invoice.lines =
          << [item |-> "Apple", qty |-> 3, cost |-> 240],
             [item |-> "Banana", qty |-> 2, cost |-> 80] >>
    /\ written[1].invoice.grand_total = 352

\* C7: in every reachable state every cart line is keyed by a catalog
\* product, has quantity >= 1, and no product has two lines.
C7_CartWellFormed ==
    /\ \A i \in 1..Len(cart) :
          /\ cart[i].item \in DOMAIN products
          /\ cart[i].qty >= 1
    /\ \A i, j \in 1..Len(cart) : cart[i].item = cart[j].item => i = j

C7_Witness ==
    /\ Len(cart) = 3
    /\ op = "add"
    /\ \E i \in 1..Len(cart) : cart[i].qty = MaxCartQty

C9_RemoveDeletesOneLine ==
    [][op' = "remove" => \A selected_item \in Pickable :
            (InCart(cart, selected_item) /\ RemoveItemWith(selected_item))
            => /\ msg'.level = "success"
               /\ ~InCart(cart', selected_item)
               /\ Keys(cart') = Keys(cart) \ {selected_item}
               /\ Len(cart') = Len(cart) - 1
               /\ \A p \in Keys(cart) \ {selected_item} :
                      LineOf(cart', p) = LineOf(cart, p)
               /\ Len(cart) = 1 => cart' = << >>]_vars

C9_Witness ==
    /\ op = "remove" /\ msg.level = "success"
    /\ Len(cart) = 2

\* C10: in every reachable state each line's unit price is the catalog price
\* of its product; adds and updates change only the quantity of a line.
C10_PriceLocked ==
    /\ []( \A i \in 1..Len(cart) : cart[i].price = products[cart[i].item] )
    /\ [][op' \in {"add", "update"} =>
            \A p \in Keys(cart) :
                InCart(cart', p) /\ LineOf(cart', p)[1] = LineOf(cart, p)[1]]_vars

C10_Witness ==
    /\ op = "update"
    /\ \E i \in 1..Len(cart) :
          /\ cart[i].qty = MaxQty
          /\ cart[i].price = products[cart[i].item]
    /\ Len(cart) >= 2

====
